---- MODULE Spec2Model ----
(***************************************************************************)
(* Model of the eApproval workflow of app.py: the approval_request table,  *)
(* the generated/ folder of signed PDFs, and the Flask handlers            *)
(* new_request, approve_request, reject_request, generate_pdf, dashboard   *)
(* and view_request.                                                       *)
(*                                                                         *)
(* Spec     : every handler call runs to completion before the next one    *)
(*            starts (one action per handler).                             *)
(* ConcSpec : approve_request / reject_request calls of several worker     *)
(*            threads interleave at their points of interaction with the   *)
(*            database and the file system (SELECT, file write, COMMIT).   *)
(*                                                                         *)
(* Every step records in pre the table and the files it started from, and  *)
(* a returning call records in last who called what and what was flashed,  *)
(* so that what a call did is a predicate on the state it leaves.          *)
(***************************************************************************)
EXTENDS Integers, Sequences, FiniteSets, TLC

\* ---------------------------------------------------------------- bounds
MaxReq == 2        \* rows the approval_request table may hold
NumProcs == 2      \* worker threads serving approve / reject concurrently
MaxWrites == 2     \* cap on the recorded number of writes of one PDF file
MaxConcReq == 1    \* rows the table may hold while calls interleave (ConcSpec)

\* ------------------------------------------------------------ vocabulary
NoFile == [absent |-> TRUE]
NoCall == "none"

Roles == {"student", "class_teacher", "hod", "principal"}

\* user.id -> user.role; ids 1..4 are the sample users created at start-up,
\* id 5 is one more student row of the user table.
UserRole == <<"student", "class_teacher", "hod", "principal", "student">>

Users == DOMAIN UserRole

\* user.id -> user.username
Username == <<"student1", "classteacher1", "hod1", "principal1", "student2">>

\* user.id -> the letters of user.username
UsernameChars ==
  << <<"s", "t", "u", "d", "e", "n", "t", "1">>,
     <<"c", "l", "a", "s", "s", "t", "e", "a", "c", "h", "e", "r", "1">>,
     <<"h", "o", "d", "1">>,
     <<"p", "r", "i", "n", "c", "i", "p", "a", "l", "1">>,
     <<"s", "t", "u", "d", "e", "n", "t", "2">> >>

\* The q argument of /dashboard: absent, blank, a capital that is the title's
\* letter, a character of one student's username, a letter found nowhere.
QueryArgs == {<<>>, <<" ">>, <<"A">>, <<"1">>, <<"z">>}

ReqIds == 1..MaxReq

Procs == 1..NumProcs

\* Form fields are strings over a two-letter alphabet: a blank and a letter.
\* NoField is a field that is missing from the posted form.
NoField == <<"missing">>

\* the "title" field: empty, blank, or a padded word
TitleFields == {<<>>, <<" ">>, <<" ", "a", " ">>}

\* the "content" field: missing, blank, or a padded word
ContentFields == {NoField, <<" ">>, <<" ", "a", " ">>}

\* the "description" field: missing, empty, or a padded word
DescriptionFields == {NoField, <<>>, <<" ", "a", " ">>}

\* The <role> segment of /reject/<req_id>/<role>: any string.
RoleParams == Roles

VARIABLES
  db,         \* approval_request table: sequence of rows, row i has id i
  files,      \* generated/request_<id>.pdf: NoFile or what was drawn in it
  pdfWrites,  \* history: how many times request_<id>.pdf has been saved
  last,       \* the call that returned last and what it flashed
  pre,        \* history: table and files as the last step found them
  pc,         \* per worker thread: position inside approve / reject
  sess        \* per worker thread: its SQLAlchemy session and call arguments

vars == <<db, files, pdfWrites, last, pre, pc, sess>>

\* ------------------------------------------------------- pure functions

\* str.strip() over the two-letter alphabet
RECURSIVE LStrip(_)
LStrip(s) == IF s # <<>> /\ Head(s) = " " THEN LStrip(Tail(s)) ELSE s

RECURSIVE RStrip(_)
RStrip(s) ==
  IF s # <<>> /\ s[Len(s)] = " " THEN RStrip(SubSeq(s, 1, Len(s) - 1)) ELSE s

\* variant: the submitted fields are used as typed
Strip_AsTyped(s) == s

Strip(s) == RStrip(LStrip(s))

\* request.form.get(name, "")
FormGet(f) == IF f = NoField THEN <<>> ELSE f

\* request.form.get("content") or request.form.get("description", ""),
\* then stripped: an absent or empty content falls through to description.
FormDescription(content, description) ==
  LET d == IF content # NoField /\ content # <<>>
           THEN content ELSE FormGet(description)
  IN  IF d # <<>> THEN Strip(d) ELSE <<>>

\* ApprovalRequest(...) as new_request builds it
NewRow(title, description, user) ==
  [title |-> title, description |-> description, created_by |-> user,
   status |-> "Pending Class Teacher",
   class_teacher_status |-> "Pending",
   hod_status |-> "Pending",
   principal_status |-> "Pending"]

Columns == {"title", "description", "created_by", "status",
            "class_teacher_status", "hod_status", "principal_status"}

\* The columns of the session's object that differ from what was loaded:
\* the SET list of the UPDATE that commit() flushes.
Dirty(loaded, req) == {c \in Columns : req[c] # loaded[c]}

\* UPDATE approval_request SET <dirty columns> WHERE id = ?
CommitRow(row, req, dirty) ==
  [c \in Columns |-> IF c \in dirty THEN req[c] ELSE row[c]]

\* variant: the canvas is drawn before req.status is assigned
PdfContent_StaleStatus(req) ==
  [title |-> req.title, creator |-> Username[req.created_by],
   status |-> "Pending Principal", description |-> req.description]

\* What the canvas draws: title, submitter, final status, description.
PdfContent(req) ==
  [title |-> req.title, creator |-> Username[req.created_by],
   status |-> req.status, description |-> req.description]

\* variant: the stage column is assigned, req.status is left as loaded
Decide_KeepsStatus(req, column, value, status) ==
  [req EXCEPT ![column] = value]

\* req.<column> = value; req.status = status
Decide(req, column, value, status) ==
  [req EXCEPT ![column] = value, !.status = status]

\* what the chain of approve_request leaves: the object, role_approved, and
\* whether the branch taken is the one that draws the PDF
Approved(req, pdf) == [req |-> req, role_approved |-> TRUE, pdf |-> pdf]

NotApproved(req) == [req |-> req, role_approved |-> FALSE, pdf |-> FALSE]

\* variant: the principal branch does not look at hod_status
ApproveLocal_NoPrerequisite(role, req) ==
  IF role = "class_teacher" /\ req.class_teacher_status = "Pending"
  THEN Approved(Decide(req, "class_teacher_status", "Approved",
                       "Pending HOD"), FALSE)
  ELSE IF role = "hod" /\ req.class_teacher_status = "Approved"
          /\ req.hod_status = "Pending"
  THEN Approved(Decide(req, "hod_status", "Approved",
                       "Pending Principal"), FALSE)
  ELSE IF role = "principal" /\ req.principal_status = "Pending"
  THEN Approved(Decide(req, "principal_status", "Approved", "Approved"), TRUE)
  ELSE NotApproved(req)

\* The if / elif / else chain of approve_request on the loaded object.
ApproveLocal(role, req) ==
  IF role = "class_teacher" /\ req.class_teacher_status = "Pending"
  THEN Approved(Decide(req, "class_teacher_status", "Approved",
                       "Pending HOD"), FALSE)
  ELSE IF role = "hod" /\ req.class_teacher_status = "Approved"
          /\ req.hod_status = "Pending"
  THEN Approved(Decide(req, "hod_status", "Approved",
                       "Pending Principal"), FALSE)
  ELSE IF role = "principal" /\ req.hod_status = "Approved"
          /\ req.principal_status = "Pending"
  THEN Approved(Decide(req, "principal_status", "Approved", "Approved"), TRUE)
  ELSE NotApproved(req)

\* what the chain of reject_request leaves: the object and role_rejected
Rejected(req) == [req |-> req, role_rejected |-> TRUE]

NotRejected(req) == [req |-> req, role_rejected |-> FALSE]

\* variant: the class_teacher branch does not look at class_teacher_status
RejectLocal_RejectsDecided(role, param, req) ==
  IF param = "class_teacher" /\ role = "class_teacher"
  THEN Rejected(Decide(req, "class_teacher_status", "Rejected",
                       "Rejected by Class Teacher"))
  ELSE IF param = "hod" /\ role = "hod"
          /\ req.class_teacher_status = "Approved"
          /\ req.hod_status = "Pending"
  THEN Rejected(Decide(req, "hod_status", "Rejected", "Rejected by HOD"))
  ELSE IF param = "principal" /\ role = "principal"
          /\ req.hod_status = "Approved"
          /\ req.principal_status = "Pending"
  THEN Rejected(Decide(req, "principal_status", "Rejected",
                       "Rejected by Principal"))
  ELSE NotRejected(req)

\* variant: the branches trust the <role> URL segment, not the caller's role
RejectLocal_AnyCaller(role, param, req) ==
  IF param = "class_teacher" /\ req.class_teacher_status = "Pending"
  THEN Rejected(Decide(req, "class_teacher_status", "Rejected",
                       "Rejected by Class Teacher"))
  ELSE IF param = "hod" /\ req.class_teacher_status = "Approved"
          /\ req.hod_status = "Pending"
  THEN Rejected(Decide(req, "hod_status", "Rejected", "Rejected by HOD"))
  ELSE IF param = "principal" /\ req.hod_status = "Approved"
          /\ req.principal_status = "Pending"
  THEN Rejected(Decide(req, "principal_status", "Rejected",
                       "Rejected by Principal"))
  ELSE NotRejected(req)

\* The if / elif / else chain of reject_request on the loaded object.
RejectLocal(role, param, req) ==
  IF param = "class_teacher" /\ role = "class_teacher"
     /\ req.class_teacher_status = "Pending"
  THEN Rejected(Decide(req, "class_teacher_status", "Rejected",
                       "Rejected by Class Teacher"))
  ELSE IF param = "hod" /\ role = "hod"
          /\ req.class_teacher_status = "Approved"
          /\ req.hod_status = "Pending"
  THEN Rejected(Decide(req, "hod_status", "Rejected", "Rejected by HOD"))
  ELSE IF param = "principal" /\ role = "principal"
          /\ req.hod_status = "Approved"
          /\ req.principal_status = "Pending"
  THEN Rejected(Decide(req, "principal_status", "Rejected",
                       "Rejected by Principal"))
  ELSE NotRejected(req)

\* What a call leaves behind for the caller: the handler, the logged-in
\* user, the request id, the <role> URL segment, the flashed outcome, and
\* what became of db.session.commit(): "none" (not reached), "ok", "raised".
Call(op, user, id, param, outcome, commit) ==
  [op |-> op, user |-> user, id |-> id, param |-> param, outcome |-> outcome,
   commit |-> commit]

IdleSess == [op |-> NoCall]

\* The session of a call that passed its checks: the arguments, the modified
\* object, the columns to flush, and whether drawing the PDF raised.
Session(op, user, id, param, loaded, req) ==
  [op |-> op, user |-> user, id |-> id, param |-> param, req |-> req,
   dirty |-> Dirty(loaded, req), pdf_failed |-> FALSE]

\* the shared state a step starts from
Snapshot == [db |-> db, files |-> files, pdfWrites |-> pdfWrites]

\* ---------------------------------------------------------------- Init
Init ==
  /\ db = <<>>
  /\ files = [i \in ReqIds |-> NoFile]
  /\ pdfWrites = [i \in ReqIds |-> 0]
  /\ last = Call(NoCall, 1, 1, NoCall, NoCall, "none")
  /\ pre = [db |-> <<>>, files |-> [i \in ReqIds |-> NoFile],
            pdfWrites |-> [i \in ReqIds |-> 0]]
  /\ pc = [p \in Procs |-> "idle"]
  /\ sess = [p \in Procs |-> IdleSess]

\* str.lower() over the letters in use
Lower(s) == [k \in DOMAIN s |-> IF s[k] = "A" THEN "a" ELSE s[k]]

\* needle occurs in hay
Contains(hay, needle) ==
  \E k \in 0..(Len(hay) - Len(needle)) :
    SubSeq(hay, k + 1, k + Len(needle)) = needle

\* column.ilike("%q%")
ILike(column, q) == Contains(Lower(column), Lower(q))

\* variant: the hod and principal filters of view_request (not "Pending")
base_q_NotPending(user, table) ==
  IF UserRole[user] = "student"
  THEN {i \in DOMAIN table : table[i].created_by = user}
  ELSE IF UserRole[user] = "class_teacher" THEN DOMAIN table
  ELSE IF UserRole[user] = "hod"
  THEN {i \in DOMAIN table : table[i].class_teacher_status # "Pending"}
  ELSE IF UserRole[user] = "principal"
  THEN {i \in DOMAIN table : table[i].hod_status # "Pending"}
  ELSE DOMAIN table

\* dashboard's base query: the ids of the rows the caller's role is shown
base_q(user, table) ==
  IF UserRole[user] = "student"
  THEN {i \in DOMAIN table : table[i].created_by = user}
  ELSE IF UserRole[user] = "class_teacher" THEN DOMAIN table
  ELSE IF UserRole[user] = "hod"
  THEN {i \in DOMAIN table : table[i].class_teacher_status = "Approved"}
  ELSE IF UserRole[user] = "principal"
  THEN {i \in DOMAIN table : table[i].hod_status = "Approved"}
  ELSE DOMAIN table

\* order_by(created_at.desc()): rows are created in id order, newest first
RECURSIVE NewestFirst(_)
NewestFirst(ids) ==
  IF ids = {} THEN <<>>
  ELSE LET m == CHOOSE i \in ids : \A j \in ids : j <= i
       IN  <<m>> \o NewestFirst(ids \ {m})

\* requests_q of dashboard: base query, optional search, ordering
requests_q(user, arg, table) ==
  LET q == Lower(Strip(arg))
  IN  NewestFirst({i \in base_q(user, table) :
        \/ q = <<>>
        \/ ILike(table[i].title, q)
        \/ ILike(UsernameChars[table[i].created_by], q)})

\* the kpis dictionary computed over the listed rows
Kpis(listed, table) ==
  [total_requests |-> Len(listed),
   pending_final |-> Cardinality({k \in DOMAIN listed :
                      table[listed[k]].principal_status = "Pending"}),
   approved_final |-> Cardinality({k \in DOMAIN listed :
                       table[listed[k]].principal_status = "Approved"})]

\* ------------------------------------------------- whole-handler actions

\* variant: the new row takes the place of the latest stored row
new_request_OverwritesLatest(user, title_field, content_field, description_field) ==
  LET title == Strip(FormGet(title_field))
      description == FormDescription(content_field, description_field)
  IN
  /\ pre' = Snapshot
  /\ UNCHANGED <<files, pdfWrites, pc, sess>>
  /\ IF UserRole[user] # "student"
     THEN /\ last' = Call("new_request", user, 0, NoCall, "denied", "none")
          /\ UNCHANGED db
     ELSE IF title = <<>> \/ description = <<>>
     THEN /\ last' = Call("new_request", user, 0, NoCall, "invalid", "none")
          /\ UNCHANGED db
     ELSE /\ Len(db) < MaxReq
          /\ db' = IF db = <<>>
                   THEN <<NewRow(title, description, user)>>
                   ELSE [db EXCEPT ![Len(db)] =
                           NewRow(title, description, user)]
          /\ last' = Call("new_request", user, Len(db) + 1, NoCall, "ok", "ok")

\* POST /new_request
new_request(user, title_field, content_field, description_field) ==
  LET title == Strip(FormGet(title_field))
      description == FormDescription(content_field, description_field)
  IN
  /\ pre' = Snapshot
  /\ UNCHANGED <<files, pdfWrites, pc, sess>>
  /\ IF UserRole[user] # "student"
     THEN /\ last' = Call("new_request", user, 0, NoCall, "denied", "none")
          /\ UNCHANGED db
     ELSE IF title = <<>> \/ description = <<>>
     THEN /\ last' = Call("new_request", user, 0, NoCall, "invalid", "none")
          /\ UNCHANGED db
     ELSE /\ Len(db) < MaxReq
          /\ db' = Append(db, NewRow(title, description, user))
          /\ last' = Call("new_request", user, Len(db) + 1, NoCall, "ok", "ok")

\* variant: the canvas is drawn but never saved to request_<id>.pdf
SavePdf_Unsaved(id, req, pdfOk) ==
  IF pdfOk
  THEN /\ pdfWrites[id] < MaxWrites
       /\ UNCHANGED files
       /\ pdfWrites' = [pdfWrites EXCEPT ![id] = @ + 1]
  ELSE UNCHANGED <<files, pdfWrites>>

\* canvas.save() of request_<id>.pdf inside the inner try: the file is
\* (re)written when drawing succeeds, left as it was when it raises.
SavePdf(id, req, pdfOk) ==
  IF pdfOk
  THEN /\ pdfWrites[id] < MaxWrites
       /\ files' = [files EXCEPT ![id] = PdfContent(req)]
       /\ pdfWrites' = [pdfWrites EXCEPT ![id] = @ + 1]
  ELSE UNCHANGED <<files, pdfWrites>>

\* variant: the PDF is drawn before the role and stage checks are made
approve_request_PdfBeforeCheck(user, id, pdfOk, commitOk) ==
  /\ pre' = Snapshot
  /\ UNCHANGED <<pc, sess>>
  /\ IF id \notin DOMAIN db
     THEN /\ last' = Call("approve", user, id, NoCall, "not_found", "none")
          /\ UNCHANGED <<db, files, pdfWrites>>
     ELSE LET r == ApproveLocal(UserRole[user], db[id])
          IN  /\ IF UserRole[user] = "principal"
                 THEN SavePdf(id, r.req, pdfOk)
                 ELSE UNCHANGED <<files, pdfWrites>>
              /\ IF ~r.role_approved
                 THEN /\ last' = Call("approve", user, id,
                                      NoCall, "denied", "none")
                      /\ UNCHANGED db
                 ELSE IF commitOk
                 THEN /\ db' = [db EXCEPT ![id] =
                             CommitRow(@, r.req, Dirty(db[id], r.req))]
                      /\ last' = Call("approve", user, id, NoCall,
                             (IF r.pdf /\ ~pdfOk THEN "ok_pdf_failed"
                                                 ELSE "ok"), "ok")
                 ELSE /\ UNCHANGED db
                      /\ last' = Call("approve", user, id,
                                      NoCall, "error", "raised")

\* variant: an exception of the PDF block reaches the outer except, which
\* rolls the session back
approve_request_PdfFailureRollsBack(user, id, pdfOk, commitOk) ==
  /\ pre' = Snapshot
  /\ UNCHANGED <<pc, sess>>
  /\ IF id \notin DOMAIN db
     THEN /\ last' = Call("approve", user, id, NoCall, "not_found", "none")
          /\ UNCHANGED <<db, files, pdfWrites>>
     ELSE LET r == ApproveLocal(UserRole[user], db[id])
          IN  IF ~r.role_approved
              THEN /\ last' = Call("approve", user, id, NoCall,
                                   "denied", "none")
                   /\ UNCHANGED <<db, files, pdfWrites>>
              ELSE IF r.pdf /\ ~pdfOk
              THEN /\ last' = Call("approve", user, id, NoCall,
                                   "error", "none")
                   /\ UNCHANGED <<db, files, pdfWrites>>
              ELSE /\ IF r.pdf THEN SavePdf(id, r.req, pdfOk)
                               ELSE UNCHANGED <<files, pdfWrites>>
                   /\ IF commitOk
                      THEN /\ db' = [db EXCEPT ![id] =
                                  CommitRow(@, r.req, Dirty(db[id], r.req))]
                           /\ last' = Call("approve", user, id, NoCall,
                                           "ok", "ok")
                      ELSE /\ UNCHANGED db
                           /\ last' = Call("approve", user, id, NoCall,
                                           "error", "raised")

\* POST /approve/<req_id>, run without interruption.
approve_request(user, id, pdfOk, commitOk) ==
  /\ pre' = Snapshot
  /\ UNCHANGED <<pc, sess>>
  /\ IF id \notin DOMAIN db
     THEN /\ last' = Call("approve", user, id, NoCall, "not_found", "none")
          /\ UNCHANGED <<db, files, pdfWrites>>
     ELSE LET r == ApproveLocal(UserRole[user], db[id])
          IN  IF ~r.role_approved
              THEN /\ last' = Call("approve", user, id,
                                   NoCall, "denied", "none")
                   /\ UNCHANGED <<db, files, pdfWrites>>
              ELSE /\ IF r.pdf THEN SavePdf(id, r.req, pdfOk)
                               ELSE UNCHANGED <<files, pdfWrites>>
                   /\ IF commitOk
                      THEN /\ db' = [db EXCEPT ![id] =
                                  CommitRow(@, r.req, Dirty(db[id], r.req))]
                           /\ last' = Call("approve", user, id, NoCall,
                                  (IF r.pdf /\ ~pdfOk THEN "ok_pdf_failed"
                                                      ELSE "ok"), "ok")
                      ELSE /\ UNCHANGED db
                           /\ last' = Call("approve", user, id,
                                           NoCall, "error", "raised")

\* POST /reject/<req_id>/<role>, run without interruption.
reject_request(user, id, param, commitOk) ==
  /\ pre' = Snapshot
  /\ UNCHANGED <<pc, sess, files, pdfWrites>>
  /\ IF id \notin DOMAIN db
     THEN /\ last' = Call("reject", user, id, param, "not_found", "none")
          /\ UNCHANGED db
     ELSE LET r == RejectLocal(UserRole[user], param, db[id])
          IN  IF ~r.role_rejected
              THEN /\ last' = Call("reject", user, id, param, "denied", "none")
                   /\ UNCHANGED db
              ELSE IF commitOk
              THEN /\ db' = [db EXCEPT ![id] =
                          CommitRow(@, r.req, Dirty(db[id], r.req))]
                   /\ last' = Call("reject", user, id, param, "ok", "ok")
              ELSE /\ UNCHANGED db
                   /\ last' = Call("reject", user, id, param, "error", "raised")

\* variant: no ownership check for students
generate_pdf_NoOwnerCheck(user, id) ==
  /\ pre' = Snapshot
  /\ UNCHANGED <<db, files, pdfWrites, pc, sess>>
  /\ last' = Call("generate_pdf", user, id, NoCall,
       (IF id \notin DOMAIN db THEN "not_found"
       ELSE IF db[id].principal_status # "Approved" THEN "not_ready"
       ELSE IF files[id] = NoFile THEN "file_missing"
       ELSE "sent"), "none")

\* GET /generate_pdf/<req_id>: serves request_<id>.pdf, never writes it.
generate_pdf(user, id) ==
  /\ pre' = Snapshot
  /\ UNCHANGED <<db, files, pdfWrites, pc, sess>>
  /\ last' = Call("generate_pdf", user, id, NoCall,
       (IF id \notin DOMAIN db THEN "not_found"
       ELSE IF UserRole[user] = "student" /\ db[id].created_by # user
            THEN "denied"
       ELSE IF db[id].principal_status # "Approved" THEN "not_ready"
       ELSE IF files[id] = NoFile THEN "file_missing"
       ELSE "sent"), "none")
\* GET /dashboard?q=<arg>: renders the listing and its kpis, writes nothing.
dashboard(user, arg) ==
  /\ pre' = Snapshot
  /\ UNCHANGED <<db, files, pdfWrites, pc, sess>>
  /\ last' = [op |-> "dashboard", user |-> user, id |-> 0, param |-> NoCall,
              outcome |-> "listed", commit |-> "none",
              q |-> arg,
              requests |-> requests_q(user, arg, db),
              kpis |-> Kpis(requests_q(user, arg, db), db)]

\* GET /request/<req_id>: renders the request unless the caller is refused.
view_request(user, id) ==
  /\ pre' = Snapshot
  /\ UNCHANGED <<db, files, pdfWrites, pc, sess>>
  /\ last' = Call("view_request", user, id, NoCall,
       (IF id \notin DOMAIN db THEN "not_found"
       ELSE IF UserRole[user] = "student" /\ db[id].created_by # user
            THEN "denied"
       ELSE IF UserRole[user] = "hod"
               /\ db[id].class_teacher_status = "Pending"
            THEN "denied"
       ELSE IF UserRole[user] = "principal" /\ db[id].hod_status = "Pending"
            THEN "denied"
       ELSE "shown"), "none")


Next ==
  \/ \E u \in Users, t \in TitleFields, c \in ContentFields,
       d \in DescriptionFields :
       new_request(u, t, c, d)
  \/ \E u \in Users, i \in ReqIds, pdfOk \in BOOLEAN, commitOk \in BOOLEAN :
       approve_request(u, i, pdfOk, commitOk)
  \/ \E u \in Users, i \in ReqIds, r \in RoleParams, commitOk \in BOOLEAN :
       reject_request(u, i, r, commitOk)
  \/ \E u \in Users, i \in ReqIds : generate_pdf(u, i)
  \/ \E u \in Users, arg \in QueryArgs : dashboard(u, arg)
  \/ \E u \in Users, i \in ReqIds : view_request(u, i)

Spec == Init /\ [][Next]_vars

\* ------------------------------------------- interleaved handler steps
\* A worker thread p runs approve_request in up to three steps, one per
\* interaction with shared state: the SELECT (with the checks made on the
\* loaded object), the write of the PDF file, and the COMMIT.

\* req = ApprovalRequest.query.get_or_404(req_id), then the if / elif chain
approve_begin(p, user, id) ==
  /\ pre' = Snapshot
  /\ pc[p] = "idle"
  /\ UNCHANGED <<db, files, pdfWrites>>
  /\ IF id \notin DOMAIN db
     THEN /\ last' = Call("approve", user, id, NoCall, "not_found", "none")
          /\ UNCHANGED <<pc, sess>>
     ELSE LET r == ApproveLocal(UserRole[user], db[id])
          IN  IF ~r.role_approved
              THEN /\ last' = Call("approve", user, id,
                                   NoCall, "denied", "none")
                   /\ UNCHANGED <<pc, sess>>
              ELSE /\ sess' = [sess EXCEPT ![p] =
                          Session("approve", user, id, NoCall, db[id], r.req)]
                   /\ pc' = [pc EXCEPT ![p] = IF r.pdf THEN "pdf" ELSE "commit"]
                   /\ UNCHANGED last

\* the inner try block of the principal branch
approve_pdf(p, pdfOk) ==
  /\ pre' = Snapshot
  /\ pc[p] = "pdf"
  /\ SavePdf(sess[p].id, sess[p].req, pdfOk)
  /\ sess' = [sess EXCEPT ![p].pdf_failed = ~pdfOk]
  /\ pc' = [pc EXCEPT ![p] = "commit"]
  /\ UNCHANGED <<db, last>>

\* db.session.commit(), or the rollback of the except branch
approve_commit(p, commitOk) ==
  /\ pre' = Snapshot
  /\ pc[p] = "commit"
  /\ sess[p].op = "approve"
  /\ pc' = [pc EXCEPT ![p] = "idle"]
  /\ sess' = [sess EXCEPT ![p] = IdleSess]
  /\ UNCHANGED <<files, pdfWrites>>
  /\ LET s == sess[p]
     IN  IF commitOk
         THEN /\ db' = [db EXCEPT ![s.id] = CommitRow(@, s.req, s.dirty)]
              /\ last' = Call("approve", s.user, s.id, NoCall,
                              (IF s.pdf_failed THEN "ok_pdf_failed"
                               ELSE "ok"), "ok")
         ELSE /\ UNCHANGED db
              /\ last' = Call("approve", s.user, s.id,
                              NoCall, "error", "raised")

reject_begin(p, user, id, param) ==
  /\ pre' = Snapshot
  /\ pc[p] = "idle"
  /\ UNCHANGED <<db, files, pdfWrites>>
  /\ IF id \notin DOMAIN db
     THEN /\ last' = Call("reject", user, id, param, "not_found", "none")
          /\ UNCHANGED <<pc, sess>>
     ELSE LET r == RejectLocal(UserRole[user], param, db[id])
          IN  IF ~r.role_rejected
              THEN /\ last' = Call("reject", user, id, param, "denied", "none")
                   /\ UNCHANGED <<pc, sess>>
              ELSE /\ sess' = [sess EXCEPT ![p] =
                          Session("reject", user, id, param, db[id], r.req)]
                   /\ pc' = [pc EXCEPT ![p] = "commit"]
                   /\ UNCHANGED last

reject_commit(p, commitOk) ==
  /\ pre' = Snapshot
  /\ pc[p] = "commit"
  /\ sess[p].op = "reject"
  /\ pc' = [pc EXCEPT ![p] = "idle"]
  /\ sess' = [sess EXCEPT ![p] = IdleSess]
  /\ UNCHANGED <<files, pdfWrites>>
  /\ LET s == sess[p]
     IN  IF commitOk
         THEN /\ db' = [db EXCEPT ![s.id] = CommitRow(@, s.req, s.dirty)]
              /\ last' = Call("reject", s.user, s.id, s.param, "ok", "ok")
         ELSE /\ UNCHANGED db
              /\ last' = Call("reject", s.user, s.id,
                              s.param, "error", "raised")

ConcNext ==
  \/ \E u \in Users, t \in TitleFields, c \in ContentFields,
       d \in DescriptionFields :
       Len(db) < MaxConcReq /\ new_request(u, t, c, d)
  \/ \E p \in Procs, u \in Users, i \in ReqIds : approve_begin(p, u, i)
  \/ \E p \in Procs, pdfOk \in BOOLEAN : approve_pdf(p, pdfOk)
  \/ \E p \in Procs, commitOk \in BOOLEAN : approve_commit(p, commitOk)
  \/ \E p \in Procs, u \in Users, i \in ReqIds, r \in RoleParams :
       reject_begin(p, u, i, r)
  \/ \E p \in Procs, commitOk \in BOOLEAN : reject_commit(p, commitOk)
  \/ \E u \in Users, i \in ReqIds : generate_pdf(u, i)

ConcSpec == Init /\ [][ConcNext]_vars

\* ------------------------------------------------------------ properties
Stages == {"class_teacher", "hod", "principal"}

\* the column a stage's decision is stored in
StageColumn == [class_teacher |-> "class_teacher_status",
                hod |-> "hod_status",
                principal |-> "principal_status"]

Decisions == {"approve", "reject"}

Succeeded(call) == call.outcome \in {"ok", "ok_pdf_failed"}

Triple(row) ==
  <<row.class_teacher_status, row.hod_status, row.principal_status>>

\* C1: a stage status that is Approved or Rejected never changes again, and
\* an approve or reject by the role of that stage is then denied.
C1_StageStatusIsFinal ==
  \A i \in DOMAIN pre.db : \A r \in Stages :
    pre.db[i][StageColumn[r]] # "Pending" =>
      /\ i \in DOMAIN db
      /\ db[i][StageColumn[r]] = pre.db[i][StageColumn[r]]
      /\ (last.op \in Decisions /\ last.id = i /\ UserRole[last.user] = r
            => last.outcome = "denied" /\ db = pre.db)

\* the hod decides a second time on a request it has approved, and is denied
C1_Witness ==
  /\ last.op = "approve" /\ last.outcome = "denied"
  /\ UserRole[last.user] = "hod"
  /\ last.id \in DOMAIN db
  /\ db[last.id].hod_status = "Approved"

\* C2: a decision by the principal is denied, with nothing changed, unless
\* hod_status is Approved; a decision by the hod is denied unless
\* class_teacher_status is Approved; the class teacher's decision on a Pending
\* class_teacher_status is never denied, whatever the other two stages hold.
C2_PrerequisiteGating ==
  \A i \in DOMAIN pre.db :
    last.op \in Decisions /\ last.id = i =>
      /\ (UserRole[last.user] = "principal"
            /\ pre.db[i].hod_status # "Approved"
            => last.outcome = "denied" /\ db = pre.db /\ files = pre.files)
      /\ (UserRole[last.user] = "hod"
            /\ pre.db[i].class_teacher_status # "Approved"
            => last.outcome = "denied" /\ db = pre.db /\ files = pre.files)
      /\ (UserRole[last.user] = "class_teacher"
            /\ pre.db[i].class_teacher_status = "Pending"
            /\ (last.op = "reject" => last.param = "class_teacher")
            => last.outcome # "denied")

\* the principal was denied on a request the hod has not approved, although
\* the principal stage itself is still Pending (so only the gate denies)
C2_Witness ==
  /\ last.op \in Decisions /\ last.outcome = "denied"
  /\ UserRole[last.user] = "principal"
  /\ last.id \in DOMAIN db
  /\ db[last.id].class_teacher_status = "Approved"
  /\ db[last.id].hod_status = "Pending"
  /\ db[last.id].principal_status = "Pending"

\* the derivation table: stage triple -> overall status
Derive(t) ==
  IF t[1] = "Pending" THEN "Pending Class Teacher"
  ELSE IF t[1] = "Rejected" THEN "Rejected by Class Teacher"
  ELSE IF t[2] = "Pending" THEN "Pending HOD"
  ELSE IF t[2] = "Rejected" THEN "Rejected by HOD"
  ELSE IF t[3] = "Pending" THEN "Pending Principal"
  ELSE IF t[3] = "Rejected" THEN "Rejected by Principal"
  ELSE "Approved"

\* C3: the stored overall status of every request is the one the derivation
\* table gives for its stored stage triple.
C3_StatusMatchesTable ==
  \A i \in DOMAIN db : db[i].status = Derive(Triple(db[i]))

SevenTriples ==
  {<<"Pending", "Pending", "Pending">>,
   <<"Rejected", "Pending", "Pending">>,
   <<"Approved", "Pending", "Pending">>,
   <<"Approved", "Rejected", "Pending">>,
   <<"Approved", "Approved", "Pending">>,
   <<"Approved", "Approved", "Rejected">>,
   <<"Approved", "Approved", "Approved">>}

\* C4: every stored stage triple is one of the seven of the table: hod_status
\* is decided only under an Approved class_teacher_status, principal_status
\* only under an Approved hod_status.
C4_OnlySevenTriples ==
  \A i \in DOMAIN db :
    /\ Triple(db[i]) \in SevenTriples
    /\ (db[i].hod_status # "Pending" => db[i].class_teacher_status = "Approved")
    /\ (db[i].principal_status # "Pending" => db[i].hod_status = "Approved")

\* C5: when calls on one request interleave, a call that commits finds its
\* stage still Pending in the table; a call whose stage has meanwhile been
\* decided does not succeed and leaves the stored row as it is.
C5_OneWinnerPerStage ==
  [][\A p \in Procs :
       pc[p] = "commit" /\ pc'[p] = "idle"
       /\ db[sess[p].id][StageColumn[UserRole[sess[p].user]]] # "Pending"
       => db'[sess[p].id] = db[sess[p].id] /\ ~Succeeded(last')]_vars

\* C6: a stage status changes only through a successful decision by the role
\* of that stage (for a reject, with that stage as URL segment); a reject whose
\* URL segment differs from the caller's role is denied.
C6_OnlyOwnStage ==
  /\ \A i \in DOMAIN pre.db : \A r \in Stages :
       i \in DOMAIN db /\ db[i][StageColumn[r]] # pre.db[i][StageColumn[r]]
       => /\ last.op \in Decisions /\ last.id = i /\ Succeeded(last)
          /\ UserRole[last.user] = r
          /\ (last.op = "reject" => last.param = r)
  /\ (last.op = "reject" /\ last.id \in DOMAIN pre.db
      /\ last.param # UserRole[last.user]
      => last.outcome = "denied" /\ db = pre.db)

\* the hod has rejected a request: hod_status alone moved
C6_Witness ==
  /\ last.op = "reject" /\ Succeeded(last) /\ UserRole[last.user] = "hod"
  /\ last.id \in DOMAIN db
  /\ Triple(db[last.id]) = <<"Approved", "Rejected", "Pending">>

\* the role policy: a role acts on the stage of its own name, while that
\* stage is Pending and the stage before it (if any) is Approved
CanAct(role, stage, row) ==
  /\ role \in Stages /\ stage = role
  /\ row[StageColumn[role]] = "Pending"
  /\ (role = "hod" => row.class_teacher_status = "Approved")
  /\ (role = "principal" => row.hod_status = "Approved")

\* the stage a returned call was aimed at
AimedAt(call) == IF call.op = "reject" THEN call.param ELSE UserRole[call.user]

\* C7: a decision is denied exactly when the role policy forbids it, and a
\* denied decision leaves the table and the PDF files as they were; a class
\* teacher deciding on an Approved class_teacher_status is denied.
C7_DeniedChangesNothing ==
  \A i \in DOMAIN pre.db :
    last.op \in Decisions /\ last.id = i =>
      /\ (last.outcome = "denied"
            <=> ~CanAct(UserRole[last.user], AimedAt(last), pre.db[i]))
      /\ (last.outcome = "denied"
            => db = pre.db /\ files = pre.files /\ pdfWrites = pre.pdfWrites)
      /\ (UserRole[last.user] = "class_teacher"
            /\ pre.db[i].class_teacher_status = "Approved"
            => last.outcome = "denied")

\* the class teacher was denied on a request it had approved
C7_Witness ==
  /\ last.op \in Decisions /\ last.outcome = "denied"
  /\ UserRole[last.user] = "class_teacher"
  /\ last.id \in DOMAIN db
  /\ db[last.id].class_teacher_status = "Approved"
  /\ files[last.id] = NoFile

Terminal(row) ==
  \/ \E k \in 1..3 : Triple(row)[k] = "Rejected"
  \/ Triple(row) = <<"Approved", "Approved", "Approved">>

\* C8: a request whose triple holds a Rejected, or is all Approved, is never
\* written again: no later step changes its stage triple or overall status.
C8_TerminalAbsorbing ==
  \A i \in DOMAIN pre.db :
    Terminal(pre.db[i]) => i \in DOMAIN db /\ db[i] = pre.db[i]

\* C9: request_<id>.pdf exists only for a request whose stored
\* principal_status is Approved.
C9_PdfOnlyIfApproved ==
  \A i \in ReqIds :
    files[i] # NoFile => i \in DOMAIN db /\ db[i].principal_status = "Approved"

\* C10: request_<id>.pdf is saved at most once.
C10_PdfWrittenOnce ==
  \A i \in ReqIds : pdfWrites[i] <= 1

\* C11: when drawing the PDF raises during a principal approve that passed
\* its checks, and the commit itself does not raise, the table holds
\* (Approved, Approved, Approved) with status "Approved", no file is written,
\* and the call returns the warning outcome, which is not the denial.
C11_PdfFailureStillCommits ==
  \A i \in DOMAIN pre.db :
    /\ last.op = "approve" /\ last.id = i
    /\ UserRole[last.user] = "principal"
    /\ CanAct("principal", "principal", pre.db[i])
    /\ pdfWrites = pre.pdfWrites
    /\ last.commit # "raised"
    => /\ Triple(db[i]) = <<"Approved", "Approved", "Approved">>
       /\ db[i].status = "Approved"
       /\ last.outcome = "ok_pdf_failed"
       /\ last.outcome # "denied"
       /\ files = pre.files

\* a principal approve has returned the warning on a request with no file
C11_Witness ==
  /\ last.op = "approve" /\ last.outcome = "ok_pdf_failed"
  /\ last.id \in DOMAIN db
  /\ pre.db[last.id].principal_status = "Pending"
  /\ db[last.id].principal_status = "Approved"
  /\ files[last.id] = NoFile

Staff == {"class_teacher", "hod", "principal"}

\* C12: generate_pdf sends the file exactly when the caller is the creator
\* or has a staff role, principal_status is Approved and the file exists; a
\* student who is not the creator is denied; the table and the files are left
\* as they were.
C12_FetchIsGated ==
  last.op = "generate_pdf" =>
    /\ db = pre.db /\ files = pre.files /\ pdfWrites = pre.pdfWrites
    /\ (last.outcome = "sent" <=>
          /\ last.id \in DOMAIN db
          /\ (db[last.id].created_by = last.user
                \/ UserRole[last.user] \in Staff)
          /\ db[last.id].principal_status = "Approved"
          /\ files[last.id] # NoFile)
    /\ (last.id \in DOMAIN db /\ UserRole[last.user] = "student"
          /\ db[last.id].created_by # last.user
          => last.outcome = "denied")

\* the other student was denied a file that exists for an approved request
C12_Witness ==
  /\ last.op = "generate_pdf" /\ last.outcome = "denied"
  /\ last.id \in DOMAIN db
  /\ UserRole[last.user] = "student"
  /\ db[last.id].created_by # last.user
  /\ db[last.id].principal_status = "Approved"
  /\ files[last.id] # NoFile

AllApproved == <<"Approved", "Approved", "Approved">>

\* C13 as claimed: every request stored as (Approved, Approved, Approved)
\* has its request_<id>.pdf.
C13_ApprovedHasPdf ==
  \A i \in DOMAIN db : Triple(db[i]) = AllApproved => files[i] # NoFile

\* C13 as amended: a principal approve that returns without the PDF warning
\* leaves the request as (Approved, Approved, Approved) / "Approved" with its
\* request_<id>.pdf drawn from that row; a file that exists is never removed;
\* and while the request is so stored and the file exists, a fetch by the
\* creator is served.
C13_PdfAfterCleanApproval ==
  /\ \A i \in ReqIds : pre.files[i] # NoFile => files[i] # NoFile
  /\ (last.op = "approve" /\ last.outcome = "ok"
        /\ UserRole[last.user] = "principal"
        => /\ Triple(db[last.id]) = AllApproved
           /\ db[last.id].status = "Approved"
           /\ files[last.id] = PdfContent(db[last.id]))
  /\ (last.op = "generate_pdf" /\ last.id \in DOMAIN db
        /\ db[last.id].created_by = last.user
        /\ Triple(db[last.id]) = AllApproved
        /\ files[last.id] # NoFile
        => last.outcome = "sent")

\* the creator has fetched the file of a fully approved request
C13_Witness ==
  /\ last.op = "generate_pdf" /\ last.outcome = "sent"
  /\ last.id \in DOMAIN db
  /\ db[last.id].created_by = last.user
  /\ Triple(db[last.id]) = AllApproved
  /\ files[last.id] = PdfContent(db[last.id])

\* a string with nothing but spaces in it (the empty string included)
Blank(s) == \A k \in DOMAIN s : s[k] = " "

\* C14: a successful new_request by a student adds exactly one request, under
\* an id no stored request has, created by the caller, with a non-blank title
\* and description, the triple (Pending, Pending, Pending) and the status
\* "Pending Class Teacher", and leaves the stored requests as they were; and
\* no operation removes a request.
C14_CreateAddsOnePending ==
  /\ DOMAIN pre.db \subseteq DOMAIN db
  /\ (last.op = "new_request" /\ last.outcome = "ok"
        => /\ UserRole[last.user] = "student"
           /\ Len(db) = Len(pre.db) + 1
           /\ last.id \in DOMAIN db \ DOMAIN pre.db
           /\ db[last.id].created_by = last.user
           /\ ~Blank(db[last.id].title)
           /\ ~Blank(db[last.id].description)
           /\ Triple(db[last.id]) = <<"Pending", "Pending", "Pending">>
           /\ db[last.id].status = "Pending Class Teacher"
           /\ \A i \in DOMAIN pre.db : db[i] = pre.db[i]
           /\ files = pre.files)

\* a student has filed a second request beside a stored one
C14_Witness ==
  /\ last.op = "new_request" /\ last.outcome = "ok"
  /\ pre.db # <<>>
  /\ Len(db) = Len(pre.db) + 1
  /\ db[last.id].created_by = last.user

\* C15: a new_request whose caller is not a student, or whose title is empty
\* or only spaces, or whose content and description are both empty, absent
\* or only spaces, is refused and stores nothing: a new_request step that
\* changes the stored requests, or is not refused, is no such call.
C15_InvalidCreatesNothing ==
  [][last'.op = "new_request"
       /\ (db' # db \/ last'.outcome \notin {"denied", "invalid"})
       => ~\E user \in Users, title_field \in TitleFields,
              content_field \in ContentFields,
              description_field \in DescriptionFields :
             /\ \/ UserRole[user] # "student"
                \/ Blank(FormGet(title_field))
                \/ /\ Blank(FormGet(content_field))
                   /\ Blank(FormGet(description_field))
             /\ new_request(user, title_field, content_field,
                            description_field)]_vars

\* a student's submission has been refused with requests already stored
C15_Witness ==
  /\ last.op = "new_request" /\ last.outcome = "invalid"
  /\ UserRole[last.user] = "student"
  /\ db = pre.db /\ db # <<>>

\* the ids a listing shows
Listed(call) == {call.requests[k] : k \in DOMAIN call.requests}

\* the rows the spec scopes a role's listing to
Scope(user, table) ==
  CASE UserRole[user] = "student" ->
         {i \in DOMAIN table : table[i].created_by = user}
    [] UserRole[user] = "class_teacher" -> DOMAIN table
    [] UserRole[user] = "hod" ->
         {i \in DOMAIN table : table[i].class_teacher_status = "Approved"}
    [] UserRole[user] = "principal" ->
         {i \in DOMAIN table : table[i].hod_status = "Approved"}

\* C16: the dashboard lists, each once, exactly the requests of the caller's
\* scope (own requests for a student, all for a class_teacher, those with
\* class_teacher_status Approved for a hod, those with hod_status Approved
\* for a principal), narrowed to a part of that scope only by a search text,
\* and listing changes no request and no file.
C16_ListingIsRoleScoped ==
  last.op = "dashboard" =>
    /\ db = pre.db /\ files = pre.files /\ pdfWrites = pre.pdfWrites
    /\ Listed(last) \subseteq Scope(last.user, db)
    /\ Cardinality(Listed(last)) = Len(last.requests)
    /\ (Blank(last.q) => Listed(last) = Scope(last.user, db))
    /\ last.kpis.total_requests = Len(last.requests)

\* the hod lists two requests, one Pending and one Approved at the class
\* teacher, and is shown the Approved one only
C16_Witness ==
  /\ last.op = "dashboard" /\ UserRole[last.user] = "hod" /\ last.q = <<>>
  /\ Len(db) = 2
  /\ \E i, j \in DOMAIN db :
       /\ db[i].class_teacher_status = "Pending"
       /\ db[j].class_teacher_status = "Approved"
       /\ last.requests = <<j>>

\* C17: however principal approve calls on one request overlap and in
\* whatever order they save, request_<id>.pdf is one file per request id and
\* holds the request's title, its creator's name, the status "Approved" and
\* its description.
C17_OnePdfSameContent ==
  \A i \in ReqIds :
    files[i] # NoFile =>
      /\ i \in DOMAIN db
      /\ files[i] = [title |-> db[i].title,
                     creator |-> Username[db[i].created_by],
                     status |-> "Approved",
                     description |-> db[i].description]

\* two principal approve calls of one request have both saved the file and
\* neither has committed yet
C17_Witness ==
  \E i \in DOMAIN db :
    /\ pdfWrites[i] = 2
    /\ files[i] # NoFile
    /\ \A p \in Procs :
         /\ pc[p] = "commit"
         /\ sess[p].op = "approve" /\ sess[p].id = i
         /\ ~sess[p].pdf_failed

\* C18: no call changes the title, description or creator of a stored request
\* or the id it is stored under; a successful approve or reject changes the
\* caller's stage status and the overall status of the request it names, and
\* leaves that request's other two stage statuses and every other request as
\* they were.
C18_Frame ==
  /\ \A i \in DOMAIN pre.db :
       /\ i \in DOMAIN db
       /\ db[i].title = pre.db[i].title
       /\ db[i].description = pre.db[i].description
       /\ db[i].created_by = pre.db[i].created_by
  /\ (last.op \in Decisions /\ Succeeded(last)
        => /\ UserRole[last.user] \in Stages
           /\ last.id \in DOMAIN pre.db
           /\ db[last.id][StageColumn[UserRole[last.user]]]
                # pre.db[last.id][StageColumn[UserRole[last.user]]]
           /\ \A s \in Stages \ {UserRole[last.user]} :
                db[last.id][StageColumn[s]] = pre.db[last.id][StageColumn[s]]
           /\ db[last.id].status # pre.db[last.id].status
           /\ \A j \in DOMAIN pre.db \ {last.id} : db[j] = pre.db[j])

\* the hod has rejected one of two stored requests
C18_Witness ==
  /\ last.op = "reject" /\ Succeeded(last)
  /\ UserRole[last.user] = "hod"
  /\ Len(pre.db) = 2
  /\ pre.db[last.id].hod_status = "Pending"
  /\ db[last.id].hod_status = "Rejected"

\* C19: a request that view_request shows to a hod has class_teacher_status
\* Approved and one it shows to a principal has hod_status Approved, that is,
\* it is a request of the caller's dashboard listing.
C19_OpenOnlyIfListed ==
  last.op = "view_request" /\ last.outcome = "shown"
    /\ UserRole[last.user] \in {"hod", "principal"}
    => /\ last.id \in Scope(last.user, db)
       /\ last.id \in base_q(last.user, db)

\* C20: every successful approve or reject is the one decision of its stage
\* and comes in stage order: the call that returns success finds, in the
\* table, its own stage Pending and the stage before it Approved (so a
\* request takes at most one success per stage, three in all).
C20_OneSuccessPerStage ==
  [][\A p \in Procs :
       pc[p] = "commit" /\ pc'[p] = "idle" /\ Succeeded(last')
       => CanAct(UserRole[sess[p].user], UserRole[sess[p].user],
                 db[sess[p].id])]_vars

====
